---- MODULE Spec2Model ----
(***************************************************************************)
(* State-machine model of FashionSolver                                    *)
(* (src/w02_fashion_story_optimizer/src/models/milp_solver.py).            *)
(*                                                                         *)
(* One FashionSolver object is modelled: the constructor's steps in their  *)
(* program order, then the public operations solve(),                      *)
(* get_best_product_choice() and get_objective_value().  The external MILP *)
(* engine (pywraplp) is modelled by the mathematics of the registered      *)
(* program: a 0/1 assignment is the set of variables at value 1.           *)
(*                                                                         *)
(* Scaling.  A product's duration is a real >= 1; it is held as an         *)
(* integer count of 1/DurationScale hours so that ceil() does work.  The   *)
(* source's HOURS_PER_DAY is 24 (milp_solver.py:22); the model uses a      *)
(* short day so that every 0/1 assignment of a model can be enumerated.    *)
(***************************************************************************)
EXTENDS Integers, Sequences, FiniteSets

\* ---------------------------------------------------------------- bounds
HOURS_PER_DAY == 2
MaxDays == 2
MaxSlots == 2
MaxProducts == 2
DurationScale == 2
MaxDurationUnits == 5
MaxUnavailable == 2
MaxKeys == 8

\* ------------------------------------------------------ program constants
MIN_SLOT_COUNT == 1
MIN_DAYS == 1
DEFAULT_SOLVER == "SCIP"

\* -------------------------------------------------------------- inputs
Benefits == {3, 10}
Durations == DurationScale..MaxDurationUnits
MaxHours == HOURS_PER_DAY * MaxDays
SolverNames == {DEFAULT_SOLVER, "NOSUCH"}
Product(i, d, b) == [id |-> i, duration |-> d, benefit |-> b]
\* catalogs as read_data() numbers them: ids 0..n-1 in row order
Catalogs ==
    UNION {
        {[i \in 1..n |-> Product(i - 1, dur[i], ben[i])] :
            dur \in [1..n -> Durations], ben \in [1..n -> Benefits]} :
        n \in 0..MaxProducts}
UnavailableLists ==
    {u \in SUBSET (0..(MaxHours - 1)) : Cardinality(u) <= MaxUnavailable}
\* candidate (product, hour, slot) placements of a configuration
Placements(s, n, d) ==
    Len(d) * HOURS_PER_DAY * (IF n < 1 THEN 1 ELSE n) * (IF s < 1 THEN 1 ELSE s)

VARIABLES
    pc,                 \* position of the object's life cycle
    trace,              \* constructor steps executed so far, in order
    arg_slots, arg_n_days, arg_unavailable_times, arg_solver_name, arg_data,
    slots, n_days, time_mapping, unavailable_times, data,
    solver_created, variables, is_solved,
    objective, constraints,
    status, solution,
    last_call, error, ret

vars ==
    <<pc, trace, arg_slots, arg_n_days, arg_unavailable_times, arg_solver_name,
      arg_data, slots, n_days, time_mapping, unavailable_times, data,
      solver_created, variables, is_solved, objective, constraints,
      status, solution, last_call, error, ret>>

args == <<arg_slots, arg_n_days, arg_unavailable_times, arg_solver_name, arg_data>>
fields == <<slots, n_days, time_mapping, unavailable_times, data>>

\* --------------------------------------------------------------- helpers
Range(f) == {f[i] : i \in DOMAIN f}

SetMax(S) == CHOOSE x \in S : \A y \in S : y <= x

\* int(np.ceil(duration)) on a duration held in 1/DurationScale hours
Ceil(d) == (d + DurationScale - 1) \div DurationScale

\* f"{product_id}_{hour}_{slot}": the three fields, in this order
CreateVariableId(product_id, hour, slot) == <<product_id, hour, slot>>

\* variable_id.split("_") -> (int(parts[0]), int(parts[1]), int(parts[2]))
ParseVariableId(variable_id) == <<variable_id[1], variable_id[2], variable_id[3]>>

\* self._data_records: product id -> record (a later row with an id wins)
DataRecords ==
    [i \in {data[k].id : k \in DOMAIN data} |->
        data[SetMax({k \in DOMAIN data : data[k].id = i})]]

\* iteration order of self._data_records: ids by first insertion
ProductOrder == [k \in DOMAIN data |-> data[k].id]

NoRet == [schedule |-> {}, value |-> 0, status |-> "none"]

\* ------------------------------------------------- variable space (117-158)
\* mutant: the finish hour is not tested against the unavailable hours
StartOnlyUnavailable(start_hour, finish_hour, last_hour) ==
    \/ finish_hour > last_hour
    \/ start_hour \in unavailable_times

\* mutant: the window is not tested against the end of the horizon
NoHorizonTest(start_hour, finish_hour, last_hour) ==
    \/ start_hour \in unavailable_times
    \/ finish_hour \in unavailable_times

IsInvalidTimeWindow(start_hour, finish_hour, last_hour) ==
    \/ finish_hour > last_hour
    \/ start_hour \in unavailable_times
    \/ finish_hour \in unavailable_times

\* mutant: a variable is created for slot 1 only
FirstSlotVariables(product_id, slot_count) ==
    LET duration_hours == Ceil(DataRecords[product_id].duration)
        last_hour == SetMax(Range(time_mapping))
    IN  {CreateVariableId(product_id, hour, 1) :
            hour \in {h \in Range(time_mapping) :
                        ~IsInvalidTimeWindow(h, h + duration_hours - 1, last_hour)}}

\* the keys one product contributes: every valid start hour, every slot
ProductVariables(product_id, slot_count) ==
    LET duration_hours == Ceil(DataRecords[product_id].duration)
        last_hour == SetMax(Range(time_mapping))
    IN  {CreateVariableId(product_id, hour, slot) :
            hour \in {h \in Range(time_mapping) :
                        ~IsInvalidTimeWindow(h, h + duration_hours - 1, last_hour)},
            slot \in 1..slot_count}

RECURSIVE VariablesFrom(_)
VariablesFrom(k) ==
    IF k > Len(ProductOrder) THEN {}
    ELSE ProductVariables(ProductOrder[k], slots) \cup VariablesFrom(k + 1)

\* ------------------------------------------------------ objective (192-203)
ObjectiveTerms ==
    [variable_id \in variables |->
        DataRecords[ParseVariableId(variable_id)[1]].benefit]

\* ---------------------------------------------------- constraints (205-243)
\* mutant: only placements starting at start_hour are collected
SameStartConflicts(product_id, start_hour) ==
    {pr \in Range(ProductOrder) \X {start_hour} :
        CreateVariableId(pr[1], pr[2], 1) \in variables}

\* mutant: the anchor product's own placements are left out
OtherProductConflicts(product_id, start_hour) ==
    LET duration == Ceil(DataRecords[product_id].duration)
        last_hour == SetMax(Range(time_mapping))
        finish_hour == IF start_hour + duration - 1 < last_hour
                       THEN start_hour + duration - 1 ELSE last_hour
    IN  {pr \in (Range(ProductOrder) \ {product_id}) \X (start_hour..finish_hour) :
            CreateVariableId(pr[1], pr[2], 1) \in variables}

\* mutant: the window is one hour longer than the product's duration
LongWindowConflicts(product_id, start_hour) ==
    LET duration == Ceil(DataRecords[product_id].duration)
        last_hour == SetMax(Range(time_mapping))
        finish_hour == IF start_hour + duration < last_hour
                       THEN start_hour + duration ELSE last_hour
    IN  {pr \in Range(ProductOrder) \X (start_hour..finish_hour) :
            CreateVariableId(pr[1], pr[2], 1) \in variables}

\* (other_product_id, hour) pairs collected by testing slot-1 variables
ConflictingVariableIds(product_id, start_hour) ==
    LET duration == Ceil(DataRecords[product_id].duration)
        last_hour == SetMax(Range(time_mapping))
        finish_hour == IF start_hour + duration - 1 < last_hour
                       THEN start_hour + duration - 1 ELSE last_hour
    IN  {pr \in Range(ProductOrder) \X (start_hour..finish_hour) :
            CreateVariableId(pr[1], pr[2], 1) \in variables}

\* the keys looked up for one slot's inequality
SlotVariables(product_id, start_hour, slot) ==
    {CreateVariableId(pr[1], pr[2], slot) :
        pr \in ConflictingVariableIds(product_id, start_hour)}

\* the Add() calls of one (product, start hour): one per slot, none if empty
AnchorConstraints(product_id, start_hour) ==
    IF CreateVariableId(product_id, start_hour, 1) \notin variables THEN <<>>
    ELSE SelectSeq([slot \in 1..slots |-> SlotVariables(product_id, start_hour, slot)],
                   LAMBDA terms : terms # {})

RECURSIVE HourConstraints(_, _)
HourConstraints(product_id, i) ==
    IF i > Len(time_mapping) THEN <<>>
    ELSE AnchorConstraints(product_id, time_mapping[i])
            \o HourConstraints(product_id, i + 1)

RECURSIVE ConstraintsFrom(_)
ConstraintsFrom(k) ==
    IF k > Len(ProductOrder) THEN <<>>
    ELSE HourConstraints(ProductOrder[k], 1) \o ConstraintsFrom(k + 1)

\* index of the first Add() whose lookup self._variables[...] misses, or 0
FirstKeyError(adds) ==
    IF \A i \in DOMAIN adds : adds[i] \subseteq variables THEN 0
    ELSE SetMax({i \in DOMAIN adds : \A j \in 1..(i - 1) : adds[j] \subseteq variables})

\* ------------------------------------------- the external solver (260, 284, 312)
RECURSIVE SumOver(_, _)
SumOver(f, S) ==
    IF S = {} THEN 0
    ELSE LET x == CHOOSE y \in S : TRUE IN f[x] + SumOver(f, S \ {x})

\* a 0/1 assignment a (the variables at 1) meets every registered "sum <= 1"
Satisfies(a) ==
    \A i \in DOMAIN constraints : Cardinality(constraints[i] \cap a) <= 1

ObjectiveOf(a) == SumOver(objective, a)

FeasibleAssignments == {a \in SUBSET variables : Satisfies(a)}

BestValue(S) == SetMax({ObjectiveOf(a) : a \in S})

OptimalAssignments ==
    LET feasible == FeasibleAssignments
        best == BestValue(feasible)
    IN  {a \in feasible : ObjectiveOf(a) = best}

OkStatuses == {"OPTIMAL", "FEASIBLE"}

\* what Solve() may report: an optimum, an incumbent, a proof of infeasibility,
\* or a failure of the engine.  Binary variables bound the program, so
\* UNBOUNDED is never reported.
SolverOutcomes ==
    {<<"OPTIMAL", a>> : a \in OptimalAssignments}
    \cup {<<"FEASIBLE", a>> : a \in FeasibleAssignments}
    \cup {<<"INFEASIBLE", {}>> : x \in {y \in {0} : FeasibleAssignments = {}}}
    \cup {<<"ABNORMAL", {}>>, <<"NOT_SOLVED", {}>>}

\* Solver.CreateSolver(name) returns None for a backend it does not know
KnownSolvers == {"SCIP"}

SolutionValue(variable_id) == IF variable_id \in solution THEN 1 ELSE 0

\* ------------------------------------------------------------ life cycle
Init ==
    /\ arg_slots \in 0..MaxSlots
    /\ arg_n_days \in 0..MaxDays
    /\ arg_unavailable_times \in UnavailableLists
    /\ arg_unavailable_times \subseteq 0..(HOURS_PER_DAY * arg_n_days - 1)
    /\ arg_solver_name \in SolverNames
    /\ arg_data \in Catalogs
    /\ Placements(arg_slots, arg_n_days, arg_data) <= MaxKeys
    /\ pc = "new"
    /\ trace = <<>>
    /\ slots = 0 /\ n_days = 0 /\ time_mapping = <<>>
    /\ unavailable_times = {} /\ data = <<>>
    /\ solver_created = FALSE
    /\ variables = {}
    /\ is_solved = FALSE
    /\ objective = <<>>
    /\ constraints = <<>>
    /\ status = "none" /\ solution = {}
    /\ last_call = "none" /\ error = "none" /\ ret = NoRet

\* mutant: the day count is not validated
SlotsOnlyValidated(s, n) == ~(s < MIN_SLOT_COUNT)

\* _validate_inputs (85-98): no exception
ValidInputs(s, n) == ~(s < MIN_SLOT_COUNT) /\ ~(n < MIN_DAYS)

\* __init__ line 47
ValidateInputs ==
    /\ pc = "new"
    /\ trace' = Append(trace, "validate")
    /\ IF ValidInputs(arg_slots, arg_n_days)
       THEN pc' = "validated" /\ error' = error
       ELSE pc' = "raised" /\ error' = "ValueError"
    /\ UNCHANGED <<args, fields, solver_created, variables, is_solved, objective,
                   constraints, status, solution, last_call, ret>>

\* __init__ lines 49-59
StoreInputs ==
    /\ pc = "validated"
    /\ trace' = Append(trace, "load")
    /\ pc' = "loaded"
    /\ slots' = arg_slots
    /\ n_days' = arg_n_days
    /\ time_mapping' = [i \in 1..(HOURS_PER_DAY * arg_n_days) |-> i - 1]
    /\ unavailable_times' = arg_unavailable_times
    /\ data' = arg_data
    /\ UNCHANGED <<args, solver_created, variables, is_solved, objective,
                   constraints, status, solution, last_call, error, ret>>

\* __init__ lines 62-64, _create_solver (100-115)
CreateSolver ==
    /\ pc = "loaded"
    /\ trace' = Append(trace, "solver")
    /\ IF arg_solver_name \in KnownSolvers
       THEN pc' = "solver" /\ solver_created' = TRUE /\ error' = error
       ELSE pc' = "raised" /\ solver_created' = FALSE /\ error' = "ValueError"
    /\ variables' = {}
    /\ is_solved' = FALSE
    /\ UNCHANGED <<args, fields, objective, constraints, status, solution,
                   last_call, ret>>

\* __init__ line 67, _initialize_variables (117-141)
InitializeVariables ==
    /\ pc = "solver"
    /\ trace' = Append(trace, "variables")
    /\ pc' = "variables"
    /\ variables' = VariablesFrom(1)
    /\ UNCHANGED <<args, fields, solver_created, is_solved, objective, constraints,
                   status, solution, last_call, error, ret>>

\* _initialize_problem line 189, _initialize_objective (192-203)
InitializeObjective ==
    /\ pc = "variables"
    /\ trace' = Append(trace, "objective")
    /\ pc' = "objective"
    /\ objective' = ObjectiveTerms
    /\ UNCHANGED <<args, fields, solver_created, variables, is_solved, constraints,
                   status, solution, last_call, error, ret>>

\* _initialize_problem line 190, _initialize_constraints (205-243)
InitializeConstraints ==
    /\ pc = "objective"
    /\ trace' = Append(trace, "constraints")
    /\ LET adds == ConstraintsFrom(1)
           bad == FirstKeyError(adds)
       IN  IF bad = 0
           THEN pc' = "ready" /\ constraints' = adds /\ error' = error
           ELSE /\ pc' = "raised"
                /\ constraints' = SubSeq(adds, 1, bad - 1)
                /\ error' = "KeyError"
    /\ UNCHANGED <<args, fields, solver_created, variables, is_solved, objective,
                   status, solution, last_call, ret>>

\* The engine is deterministic and the registered program never changes after
\* construction: the first Solve() chooses among the possible outcomes, a later
\* Solve() of the same object reports the same outcome again.
OutcomesNow ==
    IF status = "none" THEN SolverOutcomes ELSE {<<status, solution>>}

\* solve (246-267)
Solve ==
    /\ pc = "ready"
    /\ \E outcome \in OutcomesNow :
          /\ status' = outcome[1]
          /\ solution' = outcome[2]
          /\ is_solved' = (outcome[1] \in OkStatuses)
          /\ ret' = [NoRet EXCEPT !.status = outcome[1]]
    /\ last_call' = "solve"
    /\ error' = "none"
    /\ UNCHANGED <<pc, trace, args, fields, solver_created, variables, objective,
                   constraints>>

\* the rows of the result frame: selected keys joined with the catalog on id
ScheduledProducts ==
    {[id |-> ParseVariableId(v)[1], hour |-> ParseVariableId(v)[2],
      slot |-> ParseVariableId(v)[3],
      duration |-> DataRecords[ParseVariableId(v)[1]].duration,
      benefit |-> DataRecords[ParseVariableId(v)[1]].benefit] :
        v \in {w \in variables : SolutionValue(w) > 0}}

\* mutant: the readers do not test is_solved
NeverGuarded == FALSE

\* the guard of both readers (279, 309)
NotSolved == ~is_solved

\* get_best_product_choice (269-298)
GetBestProductChoice ==
    /\ pc = "ready"
    /\ last_call' = "get_best_product_choice"
    /\ IF NotSolved
       THEN error' = "RuntimeError" /\ ret' = NoRet
       ELSE error' = "none" /\ ret' = [NoRet EXCEPT !.schedule = ScheduledProducts]
    /\ UNCHANGED <<pc, trace, args, fields, solver_created, variables, is_solved,
                   objective, constraints, status, solution>>

\* get_objective_value (300-312)
GetObjectiveValue ==
    /\ pc = "ready"
    /\ last_call' = "get_objective_value"
    /\ IF NotSolved
       THEN error' = "RuntimeError" /\ ret' = NoRet
       ELSE error' = "none" /\ ret' = [NoRet EXCEPT !.value = ObjectiveOf(solution)]
    /\ UNCHANGED <<pc, trace, args, fields, solver_created, variables, is_solved,
                   objective, constraints, status, solution>>

Next ==
    \/ ValidateInputs
    \/ StoreInputs
    \/ CreateSolver
    \/ InitializeVariables
    \/ InitializeObjective
    \/ InitializeConstraints
    \/ Solve
    \/ GetBestProductChoice
    \/ GetObjectiveValue

Spec == Init /\ [][Next]_vars

\* ================================================================ properties
\* the constructor has returned and no operation has been called yet
Fresh == pc = "ready" /\ last_call = "none"

CatalogIds == {data[k].id : k \in DOMAIN data}
LastValidHour == HOURS_PER_DAY * n_days - 1
DurationOf(p) == Ceil(DataRecords[p].duration)

\* the hours a placement occupies: [t, t + ceil(duration(q)) - 1]
Window(v) == v[2]..(v[2] + DurationOf(v[1]) - 1)

\* no hour of any slot is covered by two selected placements
ConflictFree(a) ==
    \A v \in a : \A w \in a :
        (v # w /\ v[3] = w[3]) => Window(v) \cap Window(w) = {}

\* C1: every 0/1 assignment that satisfies all registered inequalities has, in
\* each slot and at each hour, at most one selected placement whose window
\* covers the hour; so has every solution a successful solve reports.
C1_NoOverlap ==
    /\ Fresh => \A a \in SUBSET variables : Satisfies(a) => ConflictFree(a)
    /\ (pc = "ready" /\ status \in OkStatuses) => ConflictFree(solution)

\* C1 witness: a built model in which an earlier placement runs into a later
\* one's start hour in the same slot, and a solve that selected two placements
C1_Witness ==
    /\ pc = "ready" /\ status = "FEASIBLE" /\ Cardinality(solution) >= 2
    /\ \E v \in variables : \E w \in variables :
          v[3] = w[3] /\ v[2] < w[2] /\ w[2] \in Window(v)

\* C2 (as claimed): the best objective over the assignments satisfying the
\* registered inequalities equals the best total benefit over the conflict-free
\* sets of valid placements.
C2_BenefitMaximal ==
    Fresh => BestValue(FeasibleAssignments)
                = BestValue({a \in SUBSET variables : ConflictFree(a)})

\* the registry the claim describes, written from the inputs alone
ExpectedRegistry ==
    {k \in CatalogIds \X (0..LastValidHour) \X (1..slots) :
        LET finish == k[2] + DurationOf(k[1]) - 1
        IN  /\ finish <= LastValidHour
            /\ k[2] \notin unavailable_times
            /\ finish \notin unavailable_times}

Readers == {"get_best_product_choice", "get_objective_value"}

\* C4: on a constructed model on which no solve has completed, a call of
\* get_best_product_choice() or get_objective_value() raises RuntimeError,
\* returns nothing, and leaves is_solved, the registry, the objective and the
\* constraints as they were.
C4_ReadersFailBeforeSolve ==
    [][(pc = "ready" /\ status = "none" /\ status' = "none"
            /\ last_call' \in Readers)
        => /\ error' = "RuntimeError"
           /\ ret' = NoRet
           /\ is_solved' = FALSE /\ is_solved = FALSE
           /\ variables' = variables
           /\ objective' = objective
           /\ constraints' = constraints]_vars

\* C4 witness: the objective was read on a fresh model with variables, and
\* the read failed
C4_Witness ==
    /\ pc = "ready" /\ status = "none" /\ variables # {}
    /\ last_call = "get_objective_value" /\ error = "RuntimeError"

\* C5 (as claimed): after a solve that completed with a status other than
\* Optimal or Feasible, is_solved is false and get_best_product_choice()
\* returns an empty schedule instead of failing.
C5_QueryableAfterFailedSolve ==
    (pc = "ready" /\ status \notin (OkStatuses \cup {"none"}))
        => /\ is_solved = FALSE
           /\ last_call = "solve" => (error = "none" /\ ret.status = status)
           /\ last_call = "get_best_product_choice"
                => (error = "none" /\ ret.schedule = {})

\* the catalog, horizon and slot count of the end-to-end example
C6_Example ==
    /\ Fresh
    /\ data = <<Product(0, 2 * DurationScale, 10), Product(1, DurationScale, 3)>>
    /\ Len(time_mapping) = 4
    /\ slots = 1
    /\ unavailable_times = {}

BothAtHourZero(a) ==
    CreateVariableId(0, 0, 1) \in a /\ CreateVariableId(1, 0, 1) \in a

NoPlacementFits ==
    /\ pc = "ready"
    /\ data # <<>>
    /\ ExpectedRegistry = {}

\* C7 (as claimed): when no placement is valid the model has no variable and
\* no constraint, a completed solve leaves is_solved false with a status that
\* is not Optimal/Feasible, and extraction returns an empty schedule.
C7_EmptyModelUnsolved ==
    (NoPlacementFits /\ status # "none")
        => /\ variables = {} /\ constraints = <<>>
           /\ status \notin OkStatuses
           /\ is_solved = FALSE

\* C7 (amended): when no placement is valid the model has no variable and no
\* constraint; the empty assignment is feasible, so the status is never
\* Infeasible, and a solve that reports Optimal/Feasible sets is_solved,
\* selects nothing, reads objective 0 and extracts an empty schedule.
C7_EmptyModelOptimal ==
    NoPlacementFits
        => /\ variables = {} /\ constraints = <<>>
           /\ FeasibleAssignments = {{}}
           /\ status # "INFEASIBLE"
           /\ status \in OkStatuses
                => /\ is_solved = TRUE
                   /\ solution = {}
                   /\ last_call \in Readers
                        => (error = "none" /\ ret.schedule = {} /\ ret.value = 0)

\* C7 witness: extraction after an Optimal solve of the empty model of a
\* product longer than the horizon
C7_Witness ==
    /\ NoPlacementFits
    /\ Len(data) = 1 /\ Ceil(data[1].duration) > Len(time_mapping)
    /\ status = "OPTIMAL"
    /\ last_call = "get_best_product_choice" /\ error = "none"

ConstructionOrder ==
    <<"validate", "load", "solver", "variables", "objective", "constraints">>

\* C8: the constructor's steps run in one order; the registry changes only in
\* the variables step, before the objective and before any constraint; every
\* term of every registered constraint is in the registry, so no lookup of
\* constraint generation misses (no KeyError).
C8_VariablesBeforeConstraints ==
    /\ [](/\ Len(trace) <= Len(ConstructionOrder)
          /\ trace = SubSeq(ConstructionOrder, 1, Len(trace))
          /\ error # "KeyError"
          /\ \A i \in DOMAIN constraints : constraints[i] \subseteq variables
          /\ (objective # <<>> \/ constraints # <<>>)
                => (Len(trace) >= 5 /\ variables # {}))
    /\ [][variables' # variables
            => (pc = "solver" /\ Len(trace) = 3
                /\ objective = <<>> /\ constraints = <<>>)]_vars
    /\ [][constraints' # constraints
            => (pc = "objective" /\ variables' = variables)]_vars

\* C8 witness: constraints of the second slot, registered from a conflict set
\* collected on slot 1
C8_Witness ==
    /\ pc = "ready" /\ slots = 2
    /\ \E i \in DOMAIN constraints : \E v \in constraints[i] : v[3] = 2

\* C9: with slots < 1 or n_days_to_schedule < 1 the constructor fails with
\* ValueError in its first step: nothing is stored, no catalog is loaded, no
\* solver is created, no variable, objective or constraint is registered.
C9_InvalidConfiguration ==
    ((arg_slots < 1 \/ arg_n_days < 1) /\ pc # "new")
        => /\ pc = "raised" /\ error = "ValueError"
           /\ trace = <<"validate">>
           /\ data = <<>> /\ time_mapping = <<>> /\ slots = 0 /\ n_days = 0
           /\ solver_created = FALSE
           /\ variables = {} /\ objective = <<>> /\ constraints = <<>>

\* C9 witness: a valid slot count, an invalid day count, a non-empty catalog
C9_Witness ==
    /\ arg_slots >= 1 /\ arg_n_days < 1 /\ arg_data # <<>>
    /\ pc = "raised" /\ error = "ValueError"

\* the (product, start hour) pairs that have a slot-1 variable
ValidPairs ==
    {pr \in CatalogIds \X (0..LastValidHour) :
        CreateVariableId(pr[1], pr[2], 1) \in variables}

\* the inequality the claim describes for (p, h) and slot s
ExpectedTerms(p, h, s) ==
    {k \in CatalogIds \X (0..LastValidHour) \X {s} :
        /\ h <= k[2]
        /\ k[2] <= h + DurationOf(p) - 1
        /\ k[2] <= LastValidHour
        /\ <<k[1], k[2], 1>> \in variables}

Anchors == ValidPairs \X (1..slots)

====
